---- MODULE Spec2Model ----
(***************************************************************************)
(* passrus: a password store served over a local socket.                   *)
(*                                                                         *)
(* The model follows src/src/cryptman.rs (envelope cipher),                *)
(* src/src/passman.rs (container tree, save and load) and src/src/main.rs  *)
(* (session state behind a mutex, command handlers, connection workers).   *)
(*                                                                         *)
(* Bytes are modelled as cells.  A plain byte is [b |-> n].  The AEAD      *)
(* ciphertext of a payload p is one cell [e |-> p[i]] per payload byte,    *)
(* followed by TagLen tag cells of which the first carries what the tag    *)
(* authenticates (key, nonce, payload).  A JSON document is the sequence   *)
(* of its tokens: [j |-> "{"] for punctuation, [s |-> "text"] for a string *)
(* literal, and the byte cells themselves inside a byte array.             *)
(***************************************************************************)
EXTENDS Integers, Sequences, FiniteSets, TLC

\* ------------------------------------------------------------------ sizes
NonceLen == 24
SaltLen == 32
TagLen == 16

\* ------------------------------------------------------------------ bounds
MaxNonce == 2
MaxSalt == 1
\* connection workers alive at once, and connections accepted in a run
NumWorkers == 2
MaxConns == 3

\* ------------------------------------------------------------------ bytes
Byte(n) == [b |-> n]

Fill(len, n) == [i \in 1..len |-> Byte(n)]

\* the value `[0u8; 32]` passed to pass_2_key to ask for a fresh salt
ZeroSalt == Fill(SaltLen, 0)

\* what OsRng.fill_bytes can leave in a 24-byte and a 32-byte buffer
NonceBytes(n) == Fill(NonceLen, n)

SaltBytes(s) == Fill(SaltLen, s)

Nonces == {NonceBytes(n) : n \in 1..MaxNonce}

Salts == {SaltBytes(s) : s \in 1..MaxSalt}

IsZero(bytes) == \A i \in DOMAIN bytes : bytes[i] = Byte(0)

Ok(v) == [ok |-> TRUE, val |-> v, err |-> ""]

Err(msg) == [ok |-> FALSE, val |-> <<>>, err |-> msg]

\* ------------------------------------------------------------------ cryptman.rs
\* Argon2 over (password, salt): a key is determined by the pair, and two
\* different pairs give different keys.
Argon2(input, salt) == [pw |-> input, salt |-> salt]

\* pass_2_key(input, salt): an all-zero salt is replaced by `fresh`, the bytes
\* the random source delivers
pass_2_key(input, salt, fresh) ==
    LET used == IF IsZero(salt) THEN fresh ELSE salt
    IN  [key |-> Argon2(input, used), salt |-> used]

\* XChaCha20Poly1305 encrypt: Len(payload) + TagLen cells
AeadEncrypt(key, nonce, payload) ==
    [i \in 1..Len(payload) |-> [e |-> payload[i]]]
        \o <<[mac |-> [k |-> key, n |-> nonce, p |-> payload]]>>
        \o [i \in 1..(TagLen - 1) |-> [pad |-> i]]

\* XChaCha20Poly1305 decrypt: the payload, when the tag verifies under (key, nonce)
AeadDecrypt(key, nonce, ct) ==
    IF Len(ct) < TagLen THEN Err("aead::Error")
    ELSE LET head == ct[Len(ct) - TagLen + 1]
         IN  IF /\ DOMAIN head = {"mac"}
                /\ head.mac.k = key
                /\ head.mac.n = nonce
                /\ ct = AeadEncrypt(key, nonce, head.mac.p)
             THEN Ok(head.mac.p)
             ELSE Err("aead::Error")

\* an envelope with the salt before the nonce
encrypt_file_mem_salt_first(file_data, key, nonce, salt) ==
    AeadEncrypt(key, nonce, file_data) \o salt \o nonce

\* encrypt_file_mem_with_salt(file_data, "", key, nonce, salt)
encrypt_file_mem_with_salt(file_data, key, nonce, salt) ==
    AeadEncrypt(key, nonce, file_data) \o nonce \o salt

\* an open without the length check: input too short for a nonce and a salt
\* is handed back as the payload
decrypt_file_mem_unchecked(file_data, pass, fresh) ==
    IF Len(file_data) <= SaltLen + NonceLen
    THEN Ok(file_data)
    ELSE LET salt == SubSeq(file_data, Len(file_data) - SaltLen + 1, Len(file_data))
             nonce == SubSeq(file_data, Len(file_data) - SaltLen - NonceLen + 1,
                             Len(file_data) - SaltLen)
             dec == AeadDecrypt(pass_2_key(pass, salt, fresh).key, nonce,
                                SubSeq(file_data, 1, Len(file_data) - SaltLen - NonceLen))
         IN  IF dec.ok THEN dec ELSE Err("Decrypting small file")

\* decrypt_file_mem_gen_key(file_data, "", pass); `fresh` is what the random
\* source delivers should pass_2_key be handed an all-zero salt
decrypt_file_mem_gen_key(file_data, pass, fresh) ==
    LET data_len == Len(file_data)
    IN  IF data_len < SaltLen + NonceLen
        THEN Err("Invalid file length. Not enough data for salt and nonce.")
        ELSE LET salt_start == data_len - SaltLen
                 nonce_start == salt_start - NonceLen
                 salt == SubSeq(file_data, salt_start + 1, data_len)
                 nonce == SubSeq(file_data, nonce_start + 1, salt_start)
                 key == pass_2_key(pass, salt, fresh).key
                 encrypted_content == SubSeq(file_data, 1, nonce_start)
             IN  IF encrypted_content = <<>>
                 THEN Err("Encrypted content is empty")
                 ELSE LET dec == AeadDecrypt(key, nonce, encrypted_content)
                      IN  IF dec.ok THEN dec
                          ELSE Err("Decrypting small file")

\* ------------------------------------------------------------------ passman.rs
\* HashMap::new()
EmptyMap == [x \in {} |-> 0]

\* HashMap::insert: an existing key is overwritten
Put(m, k, v) == [x \in (DOMAIN m) \cup {k} |-> IF x = k THEN v ELSE m[x]]

\* the order in which a HashMap hands out its keys: some order, each key once
KeyOrder(S) ==
    CHOOSE f \in [1..Cardinality(S) -> S] : \A i, k \in DOMAIN f : f[i] = f[k] => i = k

\* Container::new(name, None)
NewContainer(name) ==
    [name |-> name, children |-> EmptyMap, entries |-> EmptyMap, parent |-> "none"]

\* Entry::new(username, pass_vec, email, url)
NewEntry(username, pass_vec, email, url) ==
    [username |-> username, pass_vec |-> pass_vec, email |-> email, url |-> url,
     parent |-> ""]

\* an insert that keeps the entry a url already has
add_entry_keeping_first(c, entry) ==
    IF entry.url \in DOMAIN c.entries THEN c
    ELSE [c EXCEPT !.entries = Put(c.entries, entry.url, [entry EXCEPT !.parent = c.name])]

\* Container::add_entry
add_entry(c, entry) ==
    [c EXCEPT !.entries = Put(c.entries, entry.url, [entry EXCEPT !.parent = c.name])]

\* Container::add_child
add_child(c, child) ==
    [c EXCEPT !.children = Put(c.children, child.name, [child EXCEPT !.parent = c.name])]

\* Entry::encrypt_password
encrypt_password(entry, key, nonce, salt) ==
    [entry EXCEPT !.pass_vec = encrypt_file_mem_with_salt(entry.pass_vec, key, nonce, salt)]

\* Entry::decrypt_password: Ok(entry with the opened secret) or Err
decrypt_password(entry, password, fresh) ==
    LET dec == decrypt_file_mem_gen_key(entry.pass_vec, password, fresh)
    IN  IF dec.ok THEN Ok([entry EXCEPT !.pass_vec = dec.val]) ELSE dec

\* a save that leaves the secrets of the entries as they are
encrypt_all_passwords_skipped(c, key, nonce, salt) == c

RECURSIVE encrypt_all_passwords(_, _, _, _)
\* Container::encrypt_all_passwords: every entry of the container, then every child
encrypt_all_passwords(c, key, nonce, salt) ==
    [c EXCEPT
        !.entries = [u \in DOMAIN c.entries |->
                        encrypt_password(c.entries[u], key, nonce, salt)],
        !.children = [n \in DOMAIN c.children |->
                        encrypt_all_passwords(c.children[n], key, nonce, salt)]]

RECURSIVE Flatten(_)
\* concatenation of a sequence of sequences
Flatten(ss) == IF ss = <<>> THEN <<>> ELSE Head(ss) \o Flatten(Tail(ss))

\* a traversal that stops at the container it is given
get_all_entries_own_only(c) ==
    LET eo == KeyOrder(DOMAIN c.entries)
    IN  [i \in DOMAIN eo |-> c.entries[eo[i]]]

RECURSIVE get_all_entries(_)
\* get_all_entries: the container's own entries, then each child's, recursively
get_all_entries(c) ==
    LET eo == KeyOrder(DOMAIN c.entries)
        co == KeyOrder(DOMAIN c.children)
    IN  [i \in DOMAIN eo |-> c.entries[eo[i]]]
            \o Flatten([i \in DOMAIN co |-> get_all_entries(c.children[co[i]])])

\* a match that has no arm for the back-reference to the container
FieldMatches_without_parent(entry, field_name, target_value) ==
    CASE field_name = "url" -> entry.url = target_value
      [] field_name = "email" -> entry.email = target_value
      [] field_name = "username" -> entry.username = target_value
      [] OTHER -> FALSE

\* the `match field_name` of get_entries_by_field
FieldMatches(entry, field_name, target_value) ==
    CASE field_name = "url" -> entry.url = target_value
      [] field_name = "email" -> entry.email = target_value
      [] field_name = "parent" -> entry.parent = target_value
      [] field_name = "username" -> entry.username = target_value
      [] OTHER -> FALSE

RECURSIVE get_entries_by_field(_, _, _)
\* passman::get_entries_by_field
get_entries_by_field(c, field_name, target_value) ==
    LET eo == KeyOrder(DOMAIN c.entries)
        co == KeyOrder(DOMAIN c.children)
    IN  SelectSeq([i \in DOMAIN eo |-> c.entries[eo[i]]],
                  LAMBDA e : FieldMatches(e, field_name, target_value))
            \o Flatten([i \in DOMAIN co |->
                          get_entries_by_field(c.children[co[i]], field_name, target_value)])

\* ------------------------------------------------------------------ serde_json
Punct(p) == [j |-> p]

Str(t) == [s |-> t]

\* serde_json::to_string of an Entry
EntryToJson(e) ==
    <<Punct("{"), Str("username"), Str(e.username), Str("pass_vec"), Punct("[")>>
        \o e.pass_vec
        \o <<Punct("]"), Str("email"), Str(e.email), Str("url"), Str(e.url),
             Str("parent"), Str(e.parent), Punct("}")>>

RECURSIVE to_json_string(_)
\* Container::to_json_string: fields in declaration order, maps in HashMap order
to_json_string(c) ==
    LET eo == KeyOrder(DOMAIN c.entries)
        co == KeyOrder(DOMAIN c.children)
    IN  <<Punct("{"), Str("name"), Str(c.name), Str("children"), Punct("{")>>
            \o Flatten([i \in DOMAIN co |->
                          <<Str(co[i])>> \o to_json_string(c.children[co[i]])])
            \o <<Punct("}"), Str("entries"), Punct("{")>>
            \o Flatten([i \in DOMAIN eo |-> <<Str(eo[i])>> \o EntryToJson(c.entries[eo[i]])])
            \o <<Punct("}"), Str("parent"), Str(c.parent), Punct("}")>>

\* a parse step: failed, or a value and the tokens after it
NoParse == [ok |-> FALSE, val |-> <<>>, rest |-> <<>>]

Parsed(v, rest) == [ok |-> TRUE, val |-> v, rest |-> rest]

IsStr(toks) == toks # <<>> /\ DOMAIN toks[1] = {"s"}

Starts(toks, pre) == Len(toks) >= Len(pre) /\ SubSeq(toks, 1, Len(pre)) = pre

Drop(toks, n) == SubSeq(toks, n + 1, Len(toks))

\* a record with one more field
With(r, field, v) == [k \in DOMAIN r \cup {field} |-> IF k = field THEN v ELSE r[k]]

\* the tokens pre come next and are consumed
Expect(p, pre) ==
    IF p.ok /\ Starts(p.rest, pre) THEN Parsed(p.val, Drop(p.rest, Len(pre))) ELSE NoParse

\* a string literal comes next and becomes the value of field
ParseStr(p, field) ==
    IF p.ok /\ IsStr(p.rest) THEN Parsed(With(p.val, field, p.rest[1].s), Tail(p.rest))
    ELSE NoParse

\* a given key followed by a string literal
ParseField(p, key) == ParseStr(Expect(p, <<Str(key)>>), key)

\* the elements of a byte array up to its closing bracket become the value of field
ParseBytes(p, field) ==
    LET close == {i \in DOMAIN p.rest : p.rest[i] = Punct("]")}
    IN  IF ~p.ok \/ close = {} THEN NoParse
        ELSE LET end == CHOOSE i \in close : \A k \in close : i <= k
                 bytes == SubSeq(p.rest, 1, end - 1)
             IN  IF \E i \in DOMAIN bytes : DOMAIN bytes[i] \in {{"j"}, {"s"}}
                 THEN NoParse
                 ELSE Parsed(With(p.val, field, bytes), Drop(p.rest, end))

\* serde_json::from_slice::<Entry>
ParseEntry(toks) ==
    LET open == Expect(Parsed(<<>>, toks), <<Punct("{")>>)
        u    == ParseField(open, "username")
        pv   == ParseBytes(Expect(u, <<Str("pass_vec"), Punct("[")>>), "pass_vec")
        em   == ParseField(pv, "email")
        ur   == ParseField(em, "url")
        pa   == ParseField(ur, "parent")
    IN  Expect(pa, <<Punct("}")>>)

\* a parsed member m becomes the value of field
Member(p, field, m) ==
    IF p.ok /\ m.ok THEN Parsed(With(p.val, field, m.val), m.rest) ELSE NoParse

\* a parsed member m is inserted into the map under key k
KeyedMember(p, k, m) ==
    IF p.ok /\ m.ok THEN Parsed(Put(p.val, k, m.val), m.rest) ELSE NoParse

RECURSIVE ParseContainer(_)
RECURSIVE ParseChildren(_)
RECURSIVE ParseEntries(_)
\* the members of the "children" object up to its closing brace
ParseChildren(p) ==
    IF ~p.ok \/ p.rest = <<>> THEN NoParse
    ELSE IF p.rest[1] = Punct("}") THEN Parsed(p.val, Tail(p.rest))
    ELSE IF ~IsStr(p.rest) THEN NoParse
    ELSE ParseChildren(KeyedMember(p, p.rest[1].s, ParseContainer(Tail(p.rest))))

\* the members of the "entries" object up to its closing brace
ParseEntries(p) ==
    IF ~p.ok \/ p.rest = <<>> THEN NoParse
    ELSE IF p.rest[1] = Punct("}") THEN Parsed(p.val, Tail(p.rest))
    ELSE IF ~IsStr(p.rest) THEN NoParse
    ELSE ParseEntries(KeyedMember(p, p.rest[1].s, ParseEntry(Tail(p.rest))))

\* the "children" object
ChildrenField(p) == Member(p, "children", ParseChildren(Parsed(EmptyMap, p.rest)))

\* the "entries" object
EntriesField(p) == Member(p, "entries", ParseEntries(Parsed(EmptyMap, p.rest)))

\* serde_json::from_slice::<Container>, without the end-of-input check
ParseContainer(toks) ==
    LET open == Expect(Parsed(<<>>, toks), <<Punct("{")>>)
        nm   == ParseField(open, "name")
        ch   == ChildrenField(Expect(nm, <<Str("children"), Punct("{")>>))
        en   == EntriesField(Expect(ch, <<Str("entries"), Punct("{")>>))
        pa   == ParseField(en, "parent")
    IN  Expect(pa, <<Punct("}")>>)

\* Container::from_json_arr: the container read from the bytes, or an error
from_json_arr(arr) ==
    LET p == ParseContainer(arr)
    IN  IF p.ok /\ p.rest = <<>> THEN Ok(p.val) ELSE Err("serde_json::Error")

\* ------------------------------------------------------------------ save and load
\* the backing file: absent, or its bytes
NoFile == [exists |-> FALSE, data |-> <<>>]

FileOf(bytes) == [exists |-> TRUE, data |-> bytes]

\* write(2) on a file descriptor at offset off: the bytes replace what the
\* file has there and extend it where it ends earlier; a gap between the end
\* of the file and the offset reads as zero bytes
WriteAt(data, off, bytes) ==
    [i \in 1..(IF Len(data) > off + Len(bytes) THEN Len(data) ELSE off + Len(bytes)) |->
        IF i > off /\ i <= off + Len(bytes) THEN bytes[i - off]
        ELSE IF i <= Len(data) THEN data[i] ELSE Byte(0)]

\* the bytes encrypt_and_save_container hands to File::create: every entry
\* sealed under (key, nonce, salt), the tree serialised, the document sealed
\* under the same (key, nonce, salt)
SaveBytes(container, password, rnd) ==
    LET ks == pass_2_key(password, ZeroSalt, rnd.salt)
        sealed == encrypt_all_passwords(container, ks.key, rnd.nonce, ks.salt)
    IN  encrypt_file_mem_with_salt(to_json_string(sealed), ks.key, rnd.nonce, ks.salt)

\* encrypt_and_save_container: File::create may fail, and then nothing is written
encrypt_and_save_container(container, password, fl, rnd) ==
    IF rnd.io = "ok"
    THEN [ok |-> TRUE, err |-> "", file |-> FileOf(SaveBytes(container, password, rnd))]
    ELSE [ok |-> FALSE, err |-> "Failed to create file", file |-> fl]

\* load_and_decrypt_container: read, open the envelope, deserialise
load_and_decrypt_container(container, password, fl, rnd) ==
    IF ~fl.exists THEN Err("Failed to read encrypted file")
    ELSE LET dec == decrypt_file_mem_gen_key(fl.data, password, rnd.salt)
         IN  IF ~dec.ok THEN dec ELSE from_json_arr(dec.val)

\* ------------------------------------------------------------------ main.rs
StorePath == "/tmp/store"

\* the State that main() puts behind the mutex
State0 ==
    [store_path |-> StorePath, current_container |-> NewContainer("new"), last_pass |-> ""]

\* String::from_utf8_lossy: ASCII stays, anything else becomes U+FFFD
from_utf8_lossy(bytes) ==
    [i \in DOMAIN bytes |->
        IF DOMAIN bytes[i] = {"b"} /\ bytes[i].b < 128 THEN bytes[i] ELSE Byte(65533)]

\* format_structs_as_table: one row per entry, the secret printed lossily
format_structs_as_table(entries) ==
    [i \in DOMAIN entries |->
        [username |-> entries[i].username, email |-> entries[i].email,
         url |-> entries[i].url, parent |-> entries[i].parent,
         password |-> from_utf8_lossy(entries[i].pass_vec)]]

\* a response line, with the table rows it carries
Resp(msg, rows) == [msg |-> msg, rows |-> rows]

\* what a handler gives back: the state to store, the response, the file
\* as the handler left it; failed = the handler returned Err
Done(st, msg, rows, fl) == [state |-> st, resp |-> Resp(msg, rows), file |-> fl, failed |-> FALSE]

Failed(st, msg, fl) == [state |-> st, resp |-> Resp(msg, <<>>), file |-> fl, failed |-> TRUE]

\* open_store
open_store(store, fl, pass, rnd) == load_and_decrypt_container(store, pass, fl, rnd)

\* close_store
close_store(store, fl, pass, rnd) == encrypt_and_save_container(store, pass, fl, rnd)

\* handle_open
handle_open(st, arg1, fl, rnd) ==
    IF arg1 = "" THEN Done(st, "password required. Container is locked.", <<>>, fl)
    ELSE LET st1 == IF st.last_pass = "" THEN [st EXCEPT !.last_pass = arg1] ELSE st
             r == open_store(st1.current_container, fl, st1.last_pass, rnd)
         IN  IF r.ok
             THEN Done([st1 EXCEPT !.current_container = r.val],
                       "Password accepted, pass store opened.", <<>>, fl)
             ELSE Done([st1 EXCEPT !.last_pass = ""], "error opening store", <<>>, fl)

\* mutant: close seals the secrets of the session tree itself and hands that
\* tree back
handle_close_sealing_session(st, pass_in, fl, rnd) ==
    LET password == IF pass_in = "" THEN st.last_pass ELSE pass_in
        r == close_store(st.current_container, fl, password, rnd)
        ks == pass_2_key(password, ZeroSalt, rnd.salt)
        sealed == encrypt_all_passwords(st.current_container, ks.key, rnd.nonce, ks.salt)
    IN  IF r.ok
        THEN Done([st EXCEPT !.current_container = sealed], "store closed successfully.",
                  <<>>, r.file)
        ELSE Done(st, "error closing store", <<>>, r.file)

\* a close that forgets the cached password when the save fails, as
\* handle_open does when the load fails
handle_close_forgetting(st, pass_in, fl, rnd) ==
    LET password == IF pass_in = "" THEN st.last_pass ELSE pass_in
        r == close_store(st.current_container, fl, password, rnd)
    IN  IF r.ok THEN Done(st, "store closed successfully.", <<>>, r.file)
        ELSE Done([st EXCEPT !.last_pass = ""], "error closing store", <<>>, r.file)

\* handle_close
handle_close(st, pass_in, fl, rnd) ==
    LET password == IF pass_in = "" THEN st.last_pass ELSE pass_in
        r == close_store(st.current_container, fl, password, rnd)
    IN  IF r.ok THEN Done(st, "store closed successfully.", <<>>, r.file)
        ELSE Done(st, "error closing store", <<>>, r.file)

\* the request strings of the model that stand for dotted paths and entry JSON
PathSub == "sub"

PathSubUser == "sub.user1"

JsonA == "{\"username\":\"u\",\"password\":\"hunter2\",\"email\":\"u@x.com\",\"url\":\"site.com\"}"

JsonBad == "{\"username\":"

\* str::split('.')
SplitDots(path) ==
    CASE path = PathSubUser -> <<"sub", "user1">>
      [] path = "sub.sub" -> <<"sub", "sub">>
      [] OTHER -> <<path>>

\* str::as_bytes
as_bytes(str) ==
    CASE str = "hunter2" -> <<Byte(104), Byte(117), Byte(110), Byte(116), Byte(101),
                              Byte(114), Byte(50)>>
      [] OTHER -> <<>>

\* serde_json::from_str::<JsonEntry>
ParseJsonEntry(str) ==
    CASE str = JsonA -> Ok([username |-> "u", password |-> "hunter2",
                            email |-> "u@x.com", url |-> "site.com"])
      [] OTHER -> Err("serde_json::Error")

\* Entry::from_json_string
entry_from_json_string(entry, str) ==
    LET json_in == ParseJsonEntry(str)
    IN  IF ~json_in.ok THEN json_in
        ELSE Ok([username |-> json_in.val.username,
                 pass_vec |-> as_bytes(json_in.val.password),
                 email |-> json_in.val.email, url |-> json_in.val.url, parent |-> ""])

RECURSIVE WalkAndAdd(_, _, _)
\* the loop of add_entry_to_container: descend, creating what is missing
WalkAndAdd(c, parts, entry) ==
    IF parts = <<>> THEN add_entry(c, entry)
    ELSE LET part == Head(parts)
             c1 == IF part \in DOMAIN c.children THEN c
                   ELSE add_child(c, NewContainer(part))
         IN  [c1 EXCEPT !.children[part] = WalkAndAdd(@, Tail(parts), entry)]

\* add_entry_to_container
add_entry_to_container(current_store, path, entry) ==
    WalkAndAdd(current_store, SplitDots(path), entry)

RECURSIVE add_to_container(_, _)
\* the helper of create_child: what it returns is the result of the recursion
\* on a clone of the child
add_to_container(container, parts) ==
    IF parts = <<>> THEN container
    ELSE LET part == Head(parts)
             c1 == IF part \in DOMAIN container.children THEN container
                   ELSE add_child(container, NewContainer(part))
         IN  add_to_container(c1.children[part], Tail(parts))

\* create_child
create_child(current_store, name) == add_to_container(current_store, SplitDots(name))

\* a create_store that does not look at the tree in hand
create_store_unguarded(current_store, fl, pass, rnd) ==
    LET store == NewContainer("store")
        ks == pass_2_key(pass, ZeroSalt, rnd.salt)
        enc_res == encrypt_file_mem_with_salt(to_json_string(store), ks.key,
                                              rnd.nonce, ks.salt)
    IN  IF rnd.io = "ok"
        THEN [ok |-> TRUE, val |-> store, file |-> FileOf(enc_res)]
        ELSE [ok |-> FALSE, val |-> current_store, file |-> fl]

\* create_store: writes an empty sealed store when the tree in hand is empty
create_store(current_store, fl, pass, rnd) ==
    IF current_store.entries = EmptyMap /\ current_store.children = EmptyMap
    THEN LET store == NewContainer("store")
             ks == pass_2_key(pass, ZeroSalt, rnd.salt)
             enc_res == encrypt_file_mem_with_salt(to_json_string(store), ks.key,
                                                   rnd.nonce, ks.salt)
         IN  IF rnd.io = "ok"
             THEN [ok |-> TRUE, val |-> store, file |-> FileOf(enc_res)]
             ELSE [ok |-> FALSE, val |-> current_store, file |-> fl]
    ELSE [ok |-> TRUE, val |-> current_store, file |-> fl]

\* handle_new_store
handle_new_store(st, password, fl, rnd) ==
    IF password = ""
    THEN Done(st, "creating a store requires a password as the 2nd arg", <<>>, fl)
    ELSE LET r == create_store(st.current_container, fl, password, rnd)
         IN  IF r.ok
             THEN Done([st EXCEPT !.current_container = r.val], "Store created at", <<>>,
                       r.file)
             ELSE Failed(st, "std::io::Error", r.file)

\* handle_new_child
handle_new_child(st, container_path, fl) ==
    IF container_path = ""
    THEN Done(st, "creating a child-container requires a . separated path", <<>>, fl)
    ELSE Done([st EXCEPT !.current_container = create_child(@, container_path)],
              "created.", <<>>, fl)

\* a reveal that leaves out the entries it cannot open
RevealAll_skipping(entries, password, rnd) ==
    LET opened == SelectSeq([i \in DOMAIN entries |->
                                decrypt_password(entries[i], password, rnd.salt)],
                            LAMBDA r : r.ok)
    IN  Ok([i \in DOMAIN opened |-> opened[i].val])

\* get_all (main.rs): every entry, each opened with the password
RevealAll(entries, password, rnd) ==
    LET opened == [i \in DOMAIN entries |-> decrypt_password(entries[i], password, rnd.salt)]
    IN  IF \E i \in DOMAIN opened : ~opened[i].ok THEN Err("decrypt")
        ELSE Ok([i \in DOMAIN opened |-> opened[i].val])

\* mutant: the entry is sealed under the empty password, not the session's
insert_sealed_under_empty(st, entry_path, parsed, rnd) ==
    LET ks == pass_2_key("", ZeroSalt, rnd.salt)
        entry == encrypt_password(parsed, ks.key, rnd.nonce, ks.salt)
    IN  add_entry_to_container(st.current_container, entry_path, entry)

\* handle_new_entry from pass_2_key to add_entry_to_container: the tree of the
\* handler's State with the parsed entry sealed and inserted
insert_sealed(st, entry_path, parsed, rnd) ==
    LET ks == pass_2_key(st.last_pass, ZeroSalt, rnd.salt)
        entry == encrypt_password(parsed, ks.key, rnd.nonce, ks.salt)
    IN  add_entry_to_container(st.current_container, entry_path, entry)

\* the rest of handle_new_entry: the table of the tree it has built
created_table(st, tree, fl) ==
    Done(st, "created.", format_structs_as_table(get_all_entries(tree)), fl)

\* handle_new_entry: the handler gives back a response and no state
handle_new_entry(st, entry_path, entry_json, fl, rnd) ==
    IF entry_path = ""
    THEN Done(st, "Creating an entry requires a . separated path as the 2nd arg", <<>>, fl)
    ELSE IF entry_json = ""
    THEN Done(st, "Creating an entry requires a JSON string as the 3rd arg.", <<>>, fl)
    ELSE LET parsed == entry_from_json_string(NewEntry("", <<>>, "", ""), entry_json)
         IN  IF ~parsed.ok THEN Failed(st, parsed.err, fl)
             ELSE created_table(st, insert_sealed(st, entry_path, parsed.val, rnd), fl)

\* a `get` that keeps what it revealed: the root's entries of the state it
\* gives back are the opened ones
handle_get_storing_revealed(st, arg1, arg2, arg3, fl, rnd) ==
    LET r == RevealAll(get_all_entries(st.current_container), st.last_pass, rnd)
        revealed == IF r.ok THEN r.val ELSE <<>>
        urls == {revealed[i].url : i \in DOMAIN revealed}
    IN  Done([st EXCEPT !.current_container.entries =
                  [u \in urls |-> revealed[CHOOSE i \in DOMAIN revealed : revealed[i].url = u]]],
             "table", format_structs_as_table(revealed), fl)

\* handle_get: arg2 and arg3 are the handler's second and third arguments
handle_get(st, arg1, arg2, arg3, fl, rnd) ==
    IF arg2 = "all" \/ arg2 = "*"
    THEN LET r == RevealAll(get_all_entries(st.current_container), st.last_pass, rnd)
         IN  Done(st, "table", format_structs_as_table(IF r.ok THEN r.val ELSE <<>>), fl)
    ELSE IF arg2 = "" THEN Done(st, "provide a target field", <<>>, fl)
    ELSE IF arg3 = "" THEN Done(st, "provide a value to search by", <<>>, fl)
    ELSE LET r == RevealAll(get_entries_by_field(st.current_container, arg2, arg3),
                            st.last_pass, rnd)
         IN  Done(st, "table", format_structs_as_table(IF r.ok THEN r.val ELSE <<>>), fl)

\* handle_new: the handler gives back a response and no state, so the state
\* the sub-handlers built is dropped with the handler's local
handle_new(st, arg1, arg2, arg3, fl, rnd) ==
    LET r == CASE arg1 = "store" -> handle_new_store(st, arg2, fl, rnd)
               [] arg1 = "child" -> handle_new_child(st, arg2, fl)
               [] arg1 = "entry" -> handle_new_entry(st, arg2, arg3, fl, rnd)
               [] OTHER -> Done(st, "not recognised.", <<>>, fl)
    IN  IF arg1 = ""
        THEN Done(st, "new requires an argument (e.g store, container, entry)", <<>>, fl)
        ELSE IF arg1 = "store" /\ r.failed
        THEN Done(st, "Error creating new store", <<>>, r.file)
        ELSE [r EXCEPT !.state = st]

\* CommandProcessor::process_command
process_command(st, cmd, fl, rnd) ==
    CASE cmd.name = "open" -> handle_open(st, cmd.a1, fl, rnd)
      [] cmd.name = "close" -> handle_close(st, cmd.a1, fl, rnd)
      [] cmd.name = "get" -> handle_get(st, cmd.a1, cmd.a2, cmd.a3, fl, rnd)
      [] cmd.name = "new" -> handle_new(st, cmd.a1, cmd.a2, cmd.a3, fl, rnd)
      [] OTHER -> Done(st, "not recognised.", <<>>, fl)

\* ------------------------------------------------------------------ requests
Cmd(name, a1, a2, a3) == [name |-> name, a1 |-> a1, a2 |-> a2, a3 |-> a3]

NoCmd == Cmd("", "", "", "")

Passwords == {"pw", "qq"}

\* the requests a client sends: command name and three positional arguments
Commands ==
    {Cmd("open", p, "", "") : p \in Passwords \cup {""}}
        \cup {Cmd("close", p, "", "") : p \in Passwords \cup {""}}
        \cup {Cmd("new", "store", p, "") : p \in {"pw", ""}}
        \cup {Cmd("new", "child", p, "") : p \in {PathSubUser, ""}}
        \cup {Cmd("new", "entry", PathSubUser, j) : j \in {JsonA, JsonBad, ""}}
        \cup {Cmd("new", "entry", "", JsonA), Cmd("new", "", "", ""),
              Cmd("new", "vault", "", "")}
        \cup {Cmd("get", "all", "", ""), Cmd("get", "x", "all", ""),
              Cmd("get", "url", "site.com", ""), Cmd("get", "x", "url", "site.com"),
              Cmd("get", "x", "url", "")}
        \cup {Cmd("frob", "", "", "")}

\* what the environment decides during a command: the bytes the random source
\* delivers and whether File::create succeeds
Rnd(salt, nonce, io) == [salt |-> salt, nonce |-> nonce, io |-> io]

Rnd0 == Rnd(SaltBytes(1), NonceBytes(1), "ok")

UsesRandom(cmd) ==
    \/ cmd.name = "close"
    \/ cmd.name = "new" /\ cmd.a1 = "store" /\ cmd.a2 # ""
    \/ cmd.name = "new" /\ cmd.a1 = "entry" /\ cmd.a2 # "" /\ cmd.a3 = JsonA

WritesFile(cmd) ==
    \/ cmd.name = "close"
    \/ cmd.name = "new" /\ cmd.a1 = "store" /\ cmd.a2 # ""

Rnds(cmd) ==
    IF UsesRandom(cmd)
    THEN {Rnd(s, n, io) : s \in Salts, n \in Nonces,
                          io \in IF WritesFile(cmd) THEN {"ok", "create fails"} ELSE {"ok"}}
    ELSE {Rnd0}

\* ------------------------------------------------------------------ the store file at start
\* The file outlives the process.  At start it is absent, too short to be an
\* envelope, an envelope around something that is no tree, or a store an
\* earlier run saved under "pw": empty, or with one entry in a child container
\* whose secret carries the one seal that saving a fresh entry gives it.
EntryA == entry_from_json_string(NewEntry("", <<>>, "", ""), JsonA).val

TreeA == add_entry_to_container(NewContainer("store"), PathSub, EntryA)

InitFiles ==
    {NoFile,
     FileOf(<<Byte(1), Byte(2), Byte(3)>>),
     FileOf(encrypt_file_mem_with_salt(<<Byte(1)>>, Argon2("pw", SaltBytes(1)),
                                       NonceBytes(1), SaltBytes(1))),
     FileOf(SaveBytes(NewContainer("store"), "pw", Rnd0)),
     FileOf(SaveBytes(TreeA, "pw", Rnd0))}

\* ------------------------------------------------------------------ the service
VARIABLES
    state,      \* the State behind the mutex
    lock,       \* the mutex: 0 when free, else the worker holding the guard
    file,       \* the file at store_path
    conn,       \* per worker: where it is in handle_client, and its locals
    accepted,   \* connections accepted so far
    serial,     \* the same requests run one at a time in lock order: state and file
    journal     \* history: the password of the last `new store` that reported
                \* success, the entry JSON that `new entry` accepted since, and
                \* whether some command has ended with a response reporting a failure

vars == <<state, lock, file, conn, accepted, serial, journal>>

Workers == 1..NumWorkers

\* what input_from_client holds once the handler has returned: the new state,
\* the response, and whether the handler returned Err
Returned(res) == [state |-> res.state, resp |-> res.resp, failed |-> res.failed]

\* a worker slot with no connection
Idle ==
    [pc |-> "idle", cmd |-> NoCmd, snap |-> State0,
     res |-> Returned(Done(State0, "", <<>>, NoFile)),
     want |-> Resp("", <<>>), torn |-> FALSE, out |-> <<>>, off |-> 0]

\* the responses that report success; every other response reports a failure
SuccessMsgs ==
    {"Password accepted, pass store opened.", "store closed successfully.",
     "Store created at", "created.", "table"}

Init ==
    /\ state = State0
    /\ lock = 0
    /\ file \in InitFiles
    /\ conn = [w \in Workers |-> Idle]
    /\ accepted = 0
    /\ serial = [state |-> State0, file |-> file]
    /\ journal = [store_pw |-> "", added |-> {}, failure |-> FALSE]

\* the history after a command and its response
Journal(jr, cmd, msg) ==
    IF cmd.name = "new" /\ cmd.a1 = "store" /\ msg = "Store created at"
    THEN [jr EXCEPT !.store_pw = cmd.a2, !.added = {}]
    ELSE IF cmd.name = "new" /\ cmd.a1 = "entry" /\ msg = "created." /\ jr.store_pw # ""
    THEN [jr EXCEPT !.added = @ \cup {cmd.a3}]
    ELSE jr

\* mutant: a lock that never makes a worker wait
MutexNeverWaits(l) == TRUE

\* Mutex::lock returns once no other guard is alive
MutexFree(l) == l = 0

\* mutant: the guard outlives input_from_client
GuardKept(l) == l

\* the guard goes out of scope when input_from_client returns, by either path
DropGuard(l) == 0

\* main(): accept a connection and spawn its worker, in the first free slot
Accept(w) ==
    /\ conn[w].pc = "idle"
    /\ \A v \in Workers : v < w => conn[v].pc # "idle"
    /\ accepted < MaxConns
    /\ accepted' = accepted + 1
    /\ conn' = [conn EXCEPT ![w].pc = "ready"]
    /\ UNCHANGED <<state, lock, file, serial, journal>>

\* worker w has run the handler on its clone: res is what the handler
\* returns, ref what it returns in the serial reference run.  A handler that
\* writes the file has got as far as File::create, which leaves the file
\* empty; its write_all is still to come.
Ran(w, cmd, res, ref) ==
    /\ conn' = [conn EXCEPT ![w] =
           [pc |-> IF res.file # file THEN "writing" ELSE "ran",
            cmd |-> cmd, snap |-> state, res |-> Returned(res),
            want |-> ref.resp,
            torn |-> \E v \in Workers : conn[v].pc = "half",
            out |-> IF res.file # file THEN res.file.data ELSE <<>>, off |-> 0]]
    /\ file' = IF res.file # file THEN FileOf(<<>>) ELSE file
    /\ serial' = [state |-> IF ref.failed THEN serial.state ELSE ref.state,
                  file |-> ref.file]
    /\ journal' = Journal(journal, cmd, res.resp.msg)

\* input_from_client up to the handler's return: read and split the request,
\* take the lock, clone the state, run the handler on the clone
Handle(w) ==
    /\ conn[w].pc = "ready"
    /\ MutexFree(lock)
    /\ \E cmd \in Commands : \E rnd \in Rnds(cmd) :
          Ran(w, cmd, process_command(state, cmd, file, rnd),
              process_command(serial.state, cmd, serial.file, rnd))
    /\ lock' = w
    /\ UNCHANGED <<state, accepted>>

\* write_all, when its first write(2) takes only the first half of the bytes
WriteSome(w) ==
    /\ conn[w].pc = "writing"
    /\ conn[w].off = 0
    /\ file' = FileOf(WriteAt(file.data, 0, SubSeq(conn[w].out, 1, Len(conn[w].out) \div 2)))
    /\ conn' = [conn EXCEPT ![w].off = Len(conn[w].out) \div 2]
    /\ UNCHANGED <<state, lock, accepted, serial, journal>>

\* write_all to its end: the bytes not yet written go to the file at the
\* descriptor's offset, and the handler returns
WriteAll(w) ==
    /\ conn[w].pc = "writing"
    /\ file' = FileOf(WriteAt(file.data, conn[w].off,
                              SubSeq(conn[w].out, conn[w].off + 1, Len(conn[w].out))))
    /\ conn' = [conn EXCEPT ![w].pc = "ran", ![w].out = <<>>, ![w].off = 0]
    /\ UNCHANGED <<state, lock, accepted, serial, journal>>

\* `*state_guard = new_state`, first part: the tree and the path
StoreTree(w) ==
    /\ conn[w].pc = "ran"
    /\ ~conn[w].res.failed
    /\ state' = [state EXCEPT !.store_path = conn[w].res.state.store_path,
                              !.current_container = conn[w].res.state.current_container]
    /\ conn' = [conn EXCEPT ![w].pc = "half"]
    /\ UNCHANGED <<lock, file, accepted, serial, journal>>

\* the history once a command has ended with response msg
Ended(jr, msg) == [jr EXCEPT !.failure = @ \/ msg \notin SuccessMsgs]

\* `*state_guard = new_state`, second part, and the return of Ok(response),
\* which handle_client writes to the stream before the worker ends
StorePass(w) ==
    /\ conn[w].pc = "half"
    /\ state' = [state EXCEPT !.last_pass = conn[w].res.state.last_pass]
    /\ lock' = DropGuard(lock)
    /\ conn' = [conn EXCEPT ![w] = Idle]
    /\ journal' = Ended(journal, conn[w].res.resp.msg)
    /\ UNCHANGED <<file, accepted, serial>>

\* the `?` after process_command: the handler's Err is returned, nothing is
\* stored, and handle_client writes the error text before the worker ends
ReturnErr(w) ==
    /\ conn[w].pc = "ran"
    /\ conn[w].res.failed
    /\ lock' = DropGuard(lock)
    /\ conn' = [conn EXCEPT ![w] = Idle]
    /\ journal' = Ended(journal, conn[w].res.resp.msg)
    /\ UNCHANGED <<state, file, accepted, serial>>

Next ==
    \E w \in Workers :
        \/ Accept(w)
        \/ Handle(w)
        \/ WriteSome(w)
        \/ WriteAll(w)
        \/ StoreTree(w)
        \/ StorePass(w)
        \/ ReturnErr(w)

Spec == Init /\ [][Next]_vars

\* ------------------------------------------------------------------ what the claims read
MsgAccepted == "Password accepted, pass store opened."

MsgClosed == "store closed successfully."

MsgOpenError == "error opening store"

InHandler(w) == conn[w].pc \in {"writing", "ran", "half"}

\* a container with no children and no entries
IsEmptyTree(c) == c.children = EmptyMap /\ c.entries = EmptyMap

RECURSIVE Shape(_)
\* a tree without its secrets: containers, entries and their metadata
Shape(c) ==
    [name |-> c.name, parent |-> c.parent,
     entries |-> [u \in DOMAIN c.entries |-> [c.entries[u] EXCEPT !.pass_vec = <<>>]],
     children |-> [n \in DOMAIN c.children |-> Shape(c.children[n])]]

\* bytes that have the layout of an envelope: a tagged ciphertext, nonce, salt
IsEnvelope(bytes) ==
    /\ Len(bytes) >= TagLen + NonceLen + SaltLen
    /\ DOMAIN bytes[Len(bytes) - SaltLen - NonceLen - TagLen + 1] = {"mac"}

\* what the seal of an envelope was made with and over
SealOf(bytes) == bytes[Len(bytes) - SaltLen - NonceLen - TagLen + 1].mac

RECURSIVE SealLayers(_)
\* how many seals are nested around a secret
SealLayers(bytes) == IF IsEnvelope(bytes) THEN 1 + SealLayers(SealOf(bytes).p) ELSE 0

\* the tree inside the file, read without a password
PersistedTree(fl) ==
    IF fl.exists /\ IsEnvelope(fl.data) THEN from_json_arr(SealOf(fl.data).p)
    ELSE Err("no store")

\* the (key, nonce) pairs of the seals a save made: the store's and each entry's
SealsInFile(fl) ==
    LET es == get_all_entries(PersistedTree(fl).val)
    IN  <<[k |-> SealOf(fl.data).k, n |-> SealOf(fl.data).n]>>
            \o [i \in DOMAIN es |-> [k |-> SealOf(es[i].pass_vec).k,
                                     n |-> SealOf(es[i].pass_vec).n]]

\* the rows a fresh session gets for `open pw` followed by `get url <url>`
FreshOpenThenGet(fl, pw, url) ==
    LET opened == process_command(State0, Cmd("open", pw, "", ""), fl, Rnd0)
    IN  process_command(opened.state, Cmd("get", "url", url, ""), fl, Rnd0).resp.rows

\* ------------------------------------------------------------------ claims

\* C1 (as claimed): an entry added with `new entry` after `new store pw` and
\* persisted with `close pw` is returned by `open pw`, `get url <url>` in a
\* fresh session, with its username, its url and its plaintext password.
C1_SecretRoundTrip ==
    \A w \in Workers :
        (/\ conn[w].pc = "ran"
         /\ journal.store_pw # ""
         /\ conn[w].cmd = Cmd("close", journal.store_pw, "", "")
         /\ conn[w].res.resp.msg = MsgClosed)
        => \A j \in journal.added :
              LET e == ParseJsonEntry(j).val
                  rows == FreshOpenThenGet(file, journal.store_pw, e.url)
              IN  \E i \in DOMAIN rows :
                      /\ rows[i].username = e.username
                      /\ rows[i].url = e.url
                      /\ rows[i].password = as_bytes(e.password)

\* C2 (as claimed): every entry secret in the persisted store carries exactly
\* one field-level seal.
C2_NoDoubleSealing ==
    PersistedTree(file).ok =>
        LET es == get_all_entries(PersistedTree(file).val)
        IN  \A i \in DOMAIN es : SealLayers(es[i].pass_vec) = 1

\* C3 (as claimed): no two seals made during one save use the same (key, nonce).
C3_NonceUniqueness ==
    \A w \in Workers :
        (conn[w].pc = "ran" /\ conn[w].cmd.name = "close"
            /\ conn[w].res.resp.msg = MsgClosed)
        => LET seals == SealsInFile(file)
           IN  \A i, k \in DOMAIN seals : seals[i] = seals[k] => i = k

\* C4: at most one command handler is inside its critical section at any
\* time, and no handler cloned the session state while another handler had
\* written only part of it.
C4_MutualExclusion ==
    /\ Cardinality({w \in Workers : InHandler(w)}) <= 1
    /\ \A w \in Workers : ~conn[w].torn

C4_Witness ==
    \E w, v \in Workers : conn[w].pc = "half" /\ conn[v].pc = "ready"

\* C5: the session state and the file are those of running the same requests
\* one at a time in lock order whenever no handler is running, and every
\* response is the one the one-at-a-time run gives.
C5_SerialEquivalence ==
    /\ (\A w \in Workers : ~InHandler(w)) => state = serial.state /\ file = serial.file
    /\ \A w \in Workers : InHandler(w) => conn[w].res.resp = conn[w].want

C5_Witness ==
    \E w, v \in Workers :
        /\ conn[w].pc = "half" /\ conn[v].pc = "ready"
        /\ accepted = MaxConns
        /\ conn[w].cmd.name = "open"
        /\ state.last_pass # conn[w].res.state.last_pass
        /\ serial.state # state

\* C6 (as claimed): `open w` reports success only if w is the password the
\* file's envelope was sealed under, and the tree it loads is the file's.
C6_OpenChecksPassword ==
    \A w \in Workers :
        (conn[w].pc = "ran" /\ conn[w].cmd.name = "open"
            /\ conn[w].res.resp.msg = MsgAccepted)
        => LET r == load_and_decrypt_container(NewContainer("new"), conn[w].cmd.a1,
                                               file, Rnd0)
           IN  r.ok /\ conn[w].res.state.current_container = r.val

\* C7 (as claimed): after a failed `open` the session is Locked: no cached
\* password and no loaded tree.
C7_FailedOpenLocks ==
    \A w \in Workers :
        (conn[w].pc = "ran" /\ conn[w].cmd.name = "open"
            /\ conn[w].res.resp.msg = MsgOpenError)
        => /\ conn[w].res.state.last_pass = ""
           /\ IsEmptyTree(conn[w].res.state.current_container)

\* C8: while a `close` runs and stores its result, successful or not, the
\* state it gives back and the session state are the state it cloned.
C8_CloseKeepsSession ==
    \A w \in Workers :
        (InHandler(w) /\ conn[w].cmd.name = "close")
        => conn[w].res.state = conn[w].snap /\ state = conn[w].snap

C8_Witness ==
    \E w \in Workers :
        /\ conn[w].pc = "half"
        /\ conn[w].cmd.name = "close"
        /\ conn[w].res.resp.msg = MsgClosed
        /\ get_all_entries(state.current_container) # <<>>
        /\ PersistedTree(file).ok
        /\ PersistedTree(file).val # state.current_container

\* C9 (as claimed): after a successful `close`, a fresh session that opens
\* the file with the password the close used loads a tree of the same shape.
C9_CloseOpenRoundTrip ==
    \A w \in Workers :
        (conn[w].pc = "ran" /\ conn[w].cmd.name = "close"
            /\ conn[w].res.resp.msg = MsgClosed)
        => LET used == IF conn[w].cmd.a1 = "" THEN conn[w].snap.last_pass
                       ELSE conn[w].cmd.a1
               fresh == process_command(State0, Cmd("open", used, "", ""), file, Rnd0)
           IN  /\ fresh.resp.msg = MsgAccepted
               /\ Shape(fresh.state.current_container)
                      = Shape(conn[w].snap.current_container)

\* C10: the lock is held only by a worker that is still inside its handler:
\* once a command has ended, with a failure or not, the lock is free for the
\* next command.
C10_LockReleased ==
    /\ lock # 0 => InHandler(lock)
    /\ \A w \in Workers : ~InHandler(w) => lock # w

C10_Witness ==
    \E v \in Workers :
        /\ journal.failure
        /\ conn[v].pc = "ran"
        /\ lock = v

\* ------------------------------------------------------------------ trees, as the claims read them
RECURSIVE HasPath(_, _)
\* the tree has a container at each segment of the path, walking from c
HasPath(c, parts) ==
    \/ parts = <<>>
    \/ /\ Head(parts) \in DOMAIN c.children
       /\ HasPath(c.children[Head(parts)], Tail(parts))

RECURSIVE ContainerAt(_, _)
\* the container at the end of a path that the tree has
ContainerAt(c, parts) ==
    IF parts = <<>> THEN c ELSE ContainerAt(c.children[Head(parts)], Tail(parts))

RECURSIVE Contains(_, _)
\* big has every container and every entry of small, each where small has it
Contains(big, small) ==
    /\ \A u \in DOMAIN small.entries :
          u \in DOMAIN big.entries /\ big.entries[u] = small.entries[u]
    /\ \A n \in DOMAIN small.children :
          n \in DOMAIN big.children /\ Contains(big.children[n], small.children[n])

\* worker w is back from the handler of the command `name a1 ...` with msg
RanWith(w, name, a1, msg) ==
    /\ conn[w].pc = "ran"
    /\ conn[w].cmd.name = name
    /\ conn[w].cmd.a1 = a1
    /\ conn[w].res.resp.msg = msg

\* C11 (as claimed): after `new child <path>` has reported the path created,
\* the session tree to be stored has the root it had, contains every container
\* and entry it contained, and has a container at each segment of the path.
C11_NewChildExtends ==
    \A w \in Workers :
        RanWith(w, "new", "child", "created.")
        => LET before == conn[w].snap.current_container
               after == conn[w].res.state.current_container
           IN  /\ after.name = before.name
               /\ Contains(after, before)
               /\ HasPath(after, SplitDots(conn[w].cmd.a2))

\* ------------------------------------------------------------------ the tree operations on their own
\* A second specification applies the tree operations of main.rs and
\* passman.rs directly, to every tree that those operations build from the
\* empty root.  `state` holds the tree as the session would; `journal` holds
\* the last operation applied and what it returned; nothing else moves.

\* most entries a tree is grown to
MaxEntries == 3

PathSubSub == "sub.sub"

\* the dotted paths handed to the operations
TreePaths == {PathSub, PathSubUser, PathSubSub}

\* the entries handed to the operations
TreeEntries ==
    {NewEntry("u", <<Byte(1)>>, "u@x.com", "site.com"),
     NewEntry("v", <<Byte(2)>>, "u@x.com", "site.com"),
     NewEntry("u", <<Byte(3)>>, "v@x.com", "b.org")}

\* the field names and values handed to get_entries_by_field
TreeFields == {"username", "email", "url", "parent", "parent_name", "pass_vec"}

TreeValues == {"u", "u@x.com", "site.com", "sub"}

\* the last operation applied, what it was handed (path, field name, and the
\* value searched for or the entry inserted) and what it returned
Applied(op, path, field, value, out) ==
    [op |-> op, path |-> path, field |-> field, value |-> value, out |-> out]

TreeInit ==
    /\ state = State0
    /\ lock = 0
    /\ file = NoFile
    /\ conn = [w \in Workers |-> Idle]
    /\ accepted = 0
    /\ serial = [state |-> State0, file |-> NoFile]
    /\ journal = Applied("", "", "", "", <<>>)

\* is there room for one more entry
TreeHasRoom == Len(get_all_entries(state.current_container)) < MaxEntries

\* what HashMap::insert finds under the url in the container at the path: the
\* entry it displaces, if there is one
Displaced(c, parts, url) ==
    IF HasPath(c, parts) /\ url \in DOMAIN ContainerAt(c, parts).entries
    THEN <<ContainerAt(c, parts).entries[url]>>
    ELSE <<>>

\* add_entry_to_container(&mut state.current_container, path, entry)
TreeAddEntry ==
    /\ TreeHasRoom
    /\ \E path \in TreePaths : \E e \in TreeEntries :
          /\ state' = [state EXCEPT
                 !.current_container = add_entry_to_container(@, path, e)]
          /\ journal' = Applied("add_entry_to_container", path, "", e,
                                Displaced(state.current_container, SplitDots(path), e.url))
    /\ UNCHANGED <<lock, file, conn, accepted, serial>>

\* Container::add_entry on the root
TreeAddRootEntry ==
    /\ TreeHasRoom
    /\ \E e \in TreeEntries :
          /\ state' = [state EXCEPT !.current_container = add_entry(@, e)]
          /\ journal' = Applied("add_entry", "", "", e,
                                Displaced(state.current_container, <<>>, e.url))
    /\ UNCHANGED <<lock, file, conn, accepted, serial>>

\* handle_new_child(state, path)
TreeNewChild ==
    /\ \E path \in TreePaths :
          /\ state' = handle_new_child(state, path, file).state
          /\ journal' = Applied("handle_new_child", path, "", "", <<>>)
    /\ UNCHANGED <<lock, file, conn, accepted, serial>>

\* passman::get_all_entries(&state.current_container)
TreeGetAll ==
    /\ journal' = Applied("get_all_entries", "", "", "",
                          get_all_entries(state.current_container))
    /\ UNCHANGED <<state, lock, file, conn, accepted, serial>>

\* passman::get_entries_by_field(&state.current_container, field, value)
TreeGetByField ==
    /\ \E field \in TreeFields : \E value \in TreeValues :
          journal' = Applied("get_entries_by_field", "", field, value,
                             get_entries_by_field(state.current_container, field, value))
    /\ UNCHANGED <<state, lock, file, conn, accepted, serial>>

TreeNext ==
    \/ TreeAddEntry
    \/ TreeAddRootEntry
    \/ TreeNewChild
    \/ TreeGetAll
    \/ TreeGetByField

TreeSpec == TreeInit /\ [][TreeNext]_vars

RECURSIVE Unparented(_)
\* a tree without the containers' back-references to their parents' names
Unparented(c) ==
    [name |-> c.name, entries |-> c.entries,
     children |-> [n \in DOMAIN c.children |-> Unparented(c.children[n])]]

\* C12 (as claimed): `new child` with the path it has just been run with
\* yields a session tree isomorphic to the one the first run yielded: the same
\* containers with the same entries, whatever the back-references say.
C12_NewChildIdempotent ==
    journal.op = "handle_new_child"
    => Unparented(handle_new_child(state, journal.path, file).state.current_container)
           = Unparented(state.current_container)

\* C13 (as claimed): after a successful `new entry <path> <json>` the session
\* tree to be stored has the entry, keyed by its url, in the container at the
\* full path, still has everything it had, and lists the entry.
C13_NewEntryInserts ==
    \A w \in Workers :
        RanWith(w, "new", "entry", "created.")
        => LET before == conn[w].snap.current_container
               after == conn[w].res.state.current_container
               parts == SplitDots(conn[w].cmd.a2)
               e == ParseJsonEntry(conn[w].cmd.a3).val
           IN  /\ HasPath(after, parts)
               /\ e.url \in DOMAIN ContainerAt(after, parts).entries
               /\ ContainerAt(after, parts).entries[e.url].username = e.username
               /\ Contains(after, before)
               /\ \E i \in DOMAIN get_all_entries(after) :
                     get_all_entries(after)[i].url = e.url

\* C14: the entry that a successful `new entry` inserts carries one seal, made
\* under the password the session had cached when the command ran, and opening
\* it with that password gives the bytes of the JSON `password` field.
C14_NewEntrySealsUnderSession ==
    \A w \in Workers :
        RanWith(w, "new", "entry", "created.")
        => \A rnd \in Rnds(conn[w].cmd) :
              LET json_in == ParseJsonEntry(conn[w].cmd.a3).val
                  parsed == entry_from_json_string(NewEntry("", <<>>, "", ""),
                                                   conn[w].cmd.a3).val
                  tree == insert_sealed(conn[w].snap, conn[w].cmd.a2, parsed, rnd)
                  e == ContainerAt(tree, SplitDots(conn[w].cmd.a2)).entries[json_in.url]
                  opened == decrypt_password(e, conn[w].snap.last_pass, rnd.salt)
              IN  /\ SealLayers(e.pass_vec) = 1
                  /\ SealOf(e.pass_vec).k.pw = conn[w].snap.last_pass
                  /\ opened.ok
                  /\ opened.val.pass_vec = as_bytes(json_in.password)

\* a `new entry` is answered in a session that has a password cached
C14_Witness ==
    \E w \in Workers :
        /\ RanWith(w, "new", "entry", "created.")
        /\ conn[w].snap.last_pass = "pw"

\* C15 (as claimed): `get <field> <value>` answers with the entries of the
\* session tree whose <field> is <value>, and `get all` / `get *` with every
\* entry, the first positional argument being the field name or the selector.
C15_GetArgumentMapping ==
    \A w \in Workers :
        (conn[w].pc = "ran" /\ conn[w].cmd.name = "get" /\ conn[w].cmd.a3 = "")
        => LET tree == conn[w].snap.current_container
               a1 == conn[w].cmd.a1
               a2 == conn[w].cmd.a2
               wanted == IF a1 \in {"all", "*"} THEN get_all_entries(tree)
                         ELSE get_entries_by_field(tree, a1, a2)
               shown == RevealAll(wanted, conn[w].snap.last_pass, Rnd0)
           IN  ((a1 \in {"all", "*"}
                    \/ (a1 \in {"username", "email", "url", "parent"} /\ a2 # ""))
                  /\ shown.ok)
               => conn[w].res.resp.rows = format_structs_as_table(shown.val)

\* C16 (as claimed): whenever `new store <pw>` reports the store created, a
\* fresh session that opens the file with <pw> gets a tree with no children
\* and no entries, and the session tree to be stored is such a tree too.
C16_NewStoreCreatesEmpty ==
    \A w \in Workers :
        RanWith(w, "new", "store", "Store created at")
        => LET fresh == process_command(State0, Cmd("open", conn[w].cmd.a2, "", ""),
                                        file, Rnd0)
           IN  /\ fresh.resp.msg = MsgAccepted
               /\ IsEmptyTree(fresh.state.current_container)
               /\ IsEmptyTree(conn[w].res.state.current_container)

\* ------------------------------------------------------------------ the concurrency scenario
\* A third specification runs the service with one client per worker slot,
\* each issuing `open pw` and then `close pw`, every command on a connection
\* of its own (client.rs) and the second only after the answer to the first.
\* `accepted` counts, per client, the commands the service has accepted.  The
\* file starts as a store that an earlier run saved under "pw".  handle_open
\* and handle_close never return Err, so the `?` path takes no part.
Script == <<Cmd("open", "pw", "", ""), Cmd("close", "pw", "", "")>>

ScenarioFiles ==
    {FileOf(SaveBytes(NewContainer("store"), "pw", Rnd0)),
     FileOf(SaveBytes(TreeA, "pw", Rnd0))}

ScenarioInit ==
    /\ state = State0
    /\ lock = 0
    /\ file \in ScenarioFiles
    /\ conn = [w \in Workers |-> Idle]
    /\ accepted = [w \in Workers |-> 0]
    /\ serial = [state |-> State0, file |-> file]
    /\ journal = [store_pw |-> "", added |-> {}, failure |-> FALSE]

\* main(): the next connection of client w is accepted and its worker spawned
ClientAccept(w) ==
    /\ conn[w].pc = "idle"
    /\ accepted[w] < Len(Script)
    /\ accepted' = [accepted EXCEPT ![w] = @ + 1]
    /\ conn' = [conn EXCEPT ![w].pc = "ready"]
    /\ UNCHANGED <<state, lock, file, serial, journal>>

\* input_from_client up to the handler's return, on the client's command
ClientHandle(w) ==
    /\ conn[w].pc = "ready"
    /\ MutexFree(lock)
    /\ \E rnd \in Rnds(Script[accepted[w]]) :
          Ran(w, Script[accepted[w]],
              process_command(state, Script[accepted[w]], file, rnd),
              process_command(serial.state, Script[accepted[w]], serial.file, rnd))
    /\ lock' = w
    /\ UNCHANGED <<state, accepted>>

ScenarioNext ==
    \E w \in Workers :
        \/ ClientAccept(w)
        \/ ClientHandle(w)
        \/ WriteSome(w)
        \/ WriteAll(w)
        \/ StoreTree(w)
        \/ StorePass(w)

ScenarioSpec == ScenarioInit /\ [][ScenarioNext]_vars

\* every client has had its answer to every command of the script
ScenarioCompleted ==
    \A w \in Workers : accepted[w] = Len(Script) /\ conn[w].pc = "idle"

\* C17: whenever no handler is running, and so when both clients have
\* completed `open pw`, `close pw`, the file is one complete envelope that a
\* fresh session's `open pw` loads.
C17_FileNeverCorrupt ==
    (\A w \in Workers : ~InHandler(w))
    => /\ file.exists
       /\ IsEnvelope(file.data)
       /\ process_command(State0, Script[1], file, Rnd0).resp.msg = MsgAccepted

\* both clients are through and the file is one that a close of theirs wrote
C17_Witness ==
    /\ ScenarioCompleted
    /\ file \notin ScenarioFiles
    /\ ~journal.failure

\* ------------------------------------------------------------------ C18
\* the names the containers of the trees have, and the deepest nesting looked at
ContainerNames == {"sub", "user1"}

MaxDepth == 3

\* every path of container names down to MaxDepth
ContainerPaths == UNION {[1..n -> ContainerNames] : n \in 0..MaxDepth}

\* where the tree stores an entry: the path of the container, and the key
Positions(c) ==
    UNION {{<<p, u>> : u \in DOMAIN ContainerAt(c, p).entries} :
              p \in {q \in ContainerPaths : HasPath(c, q)}}

\* the entry the tree stores at a position
StoredAt(c, pos) == ContainerAt(c, pos[1]).entries[pos[2]]

\* C18: get_all_entries returns the entries stored in the tree, one element
\* for each place an entry is stored at whatever depth, and nothing else: the
\* elements of the list and the stored positions pair off one to one.
C18_TraversalComplete ==
    journal.op = "get_all_entries"
    => \E f \in [DOMAIN journal.out -> Positions(state.current_container)] :
          /\ \A i, k \in DOMAIN f : f[i] = f[k] => i = k
          /\ \A pos \in Positions(state.current_container) : \E i \in DOMAIN f : f[i] = pos
          /\ \A i \in DOMAIN f : journal.out[i] = StoredAt(state.current_container, f[i])

\* a traversal of a tree with entries at three nesting levels, two of them the
\* same record stored in two containers
C18_Witness ==
    /\ journal.op = "get_all_entries"
    /\ {Len(pos[1]) : pos \in Positions(state.current_container)} = {0, 1, 2}
    /\ \E i, k \in DOMAIN journal.out : i # k /\ journal.out[i] = journal.out[k]

\* ------------------------------------------------------------------ C19
\* the list has one element for each of the places, the entry stored there
ListsExactly(out, c, places) ==
    \E f \in [DOMAIN out -> places] :
        /\ \A i, k \in DOMAIN f : f[i] = f[k] => i = k
        /\ \A pos \in places : \E i \in DOMAIN f : f[i] = pos
        /\ \A i \in DOMAIN f : out[i] = StoredAt(c, f[i])

\* the field of an entry that a name selects, when the back-reference to the
\* container goes by the name back_ref
FieldOf(e, name, back_ref) ==
    CASE name = "username" -> e.username
      [] name = "email" -> e.email
      [] name = "url" -> e.url
      [] name = back_ref -> e.parent

\* get_entries_by_field is exact when the back-reference goes by back_ref
FindExact(back_ref) ==
    journal.op = "get_entries_by_field"
    => IF journal.field \in {"username", "email", "url", back_ref}
       THEN ListsExactly(journal.out, state.current_container,
                {pos \in Positions(state.current_container) :
                    FieldOf(StoredAt(state.current_container, pos), journal.field, back_ref)
                        = journal.value})
       ELSE journal.out = <<>>

\* C19 (as claimed): for the field names username, email, url and parent_name
\* get_entries_by_field returns exactly the entries anywhere in the tree whose
\* named field equals the value, and the empty list for any other name.
C19_FindByFieldExact == FindExact("parent_name")

\* C19 (amended): the same with the back-reference selected by the name
\* parent; parent_name is one of the other names and yields the empty list.
C19_FindByFieldExactParent == FindExact("parent")

\* a search by parent that finds entries of two containers of that name at
\* different depths and leaves out an entry of the tree
C19_Witness ==
    /\ journal.op = "get_entries_by_field"
    /\ journal.field = "parent"
    /\ Len(journal.out) = 2
    /\ Cardinality(Positions(state.current_container)) = 3
    /\ \E p, q \in Positions(state.current_container) :
          /\ Len(p[1]) # Len(q[1])
          /\ StoredAt(state.current_container, p).parent = journal.value
          /\ StoredAt(state.current_container, q).parent = journal.value

\* ------------------------------------------------------------------ C20
\* worker w takes the step, and the command it is on is a `get`
StepOfGet(w) ==
    /\ conn'[w] # conn[w]
    /\ conn[w].cmd.name = "get" \/ conn'[w].cmd.name = "get"

\* C20: no step of a `get`, from the handler's run to the write-back of the
\* state it returned, changes the session tree (the sealed secrets of its
\* entries included), the cached password or the backing file, whatever the
\* command answers.
C20_GetLeavesStore ==
    [][\A w \in Workers : StepOfGet(w) => state' = state /\ file' = file]_vars

\* a `get` that revealed a secret has had its tree written back, and the
\* session tree still holds that entry sealed
C20_Witness ==
    \E w \in Workers :
        /\ conn[w].pc = "half"
        /\ conn[w].cmd.name = "get"
        /\ \E i \in DOMAIN conn[w].res.resp.rows :
              \E u \in DOMAIN state.current_container.children[PathSub].entries :
                  /\ conn[w].res.resp.rows[i].url = u
                  /\ IsEnvelope(state.current_container.children[PathSub].entries[u].pass_vec)

\* ------------------------------------------------------------------ C21
\* C21: in every state of the session, every entry of the session tree, at
\* whatever depth, holds its secret as an envelope.
C21_SessionSecretsSealed ==
    \A pos \in DOMAIN get_all_entries(state.current_container) :
        IsEnvelope(get_all_entries(state.current_container)[pos].pass_vec)

\* a session that opened a store a `close` of this run had saved: the entry it
\* holds carries the seal of that save around the seal it had
C21_Witness ==
    /\ \A w \in Workers : conn[w].pc = "idle"
    /\ \E pos \in DOMAIN get_all_entries(state.current_container) :
          SealLayers(get_all_entries(state.current_container)[pos].pass_vec) = 2

\* ------------------------------------------------------------------ the envelope cipher on its own
\* A further specification applies pass_2_key, encrypt_file_mem_with_salt and
\* decrypt_file_mem_gen_key directly.  `journal` holds the last call: what was
\* sealed (payload p under password w, nonce n, salt s), the bytes handed to the
\* open, the password they were opened with, and what the open returned.  The
\* calls are pure, so each run is one seal followed by one open, or one open.

\* longest payload sealed
MaxPayload == 2

\* the payloads: every byte string over two byte values up to MaxPayload
Payloads == UNION {[1..k -> {Byte(1), Byte(200)}] : k \in 0..MaxPayload}

\* the passwords handed to the cipher; Argon2 takes the empty one as well
CipherPasswords == Passwords \cup {""}

Call(op, p, w, n, s, bytes, with, out) ==
    [op |-> op, p |-> p, w |-> w, n |-> n, s |-> s, bytes |-> bytes, with |-> with,
     out |-> out]

CipherInit ==
    /\ state = State0
    /\ lock = 0
    /\ file = NoFile
    /\ conn = [w \in Workers |-> Idle]
    /\ accepted = 0
    /\ serial = [state |-> State0, file |-> NoFile]
    /\ journal = Call("", <<>>, "", <<>>, <<>>, <<>>, "", Err(""))

\* pass_2_key(w, salt) with a salt given or asked for, then
\* encrypt_file_mem_with_salt(p, "", key, nonce, salt)
CipherSeal ==
    /\ journal.op = ""
    /\ \E p \in Payloads : \E w \in CipherPasswords : \E n \in Nonces :
       \E given \in Salts \cup {ZeroSalt} : \E fresh \in Salts :
          journal' = Call("seal", p, w, n, pass_2_key(w, given, fresh).salt,
                          encrypt_file_mem_with_salt(p, pass_2_key(w, given, fresh).key, n,
                                                     pass_2_key(w, given, fresh).salt),
                          "", Err(""))
    /\ UNCHANGED <<state, lock, file, conn, accepted, serial>>

\* decrypt_file_mem_gen_key(envelope, "", with) on the envelope just sealed
CipherOpen ==
    /\ journal.op = "seal"
    /\ \E with \in CipherPasswords : \E fresh \in Salts :
          journal' = [journal EXCEPT !.op = "open", !.with = with,
                          !.out = decrypt_file_mem_gen_key(journal.bytes, with, fresh)]
    /\ UNCHANGED <<state, lock, file, conn, accepted, serial>>

\* the lengths at which an envelope is cut: around the salt, around the salt
\* and the nonce together, and one byte off the whole
CutLens(len) ==
    {0, 1, SaltLen - 1, SaltLen, SaltLen + 1, SaltLen + NonceLen - 1, SaltLen + NonceLen,
     SaltLen + NonceLen + 1, len - 1}

\* byte strings made from an envelope: its last bytes, its first bytes, and
\* the envelope with the salt put before the nonce
Mangled(j) ==
    {SubSeq(j.bytes, Len(j.bytes) - k + 1, Len(j.bytes)) : k \in CutLens(Len(j.bytes))}
        \cup {SubSeq(j.bytes, 1, k) : k \in CutLens(Len(j.bytes))}
        \cup {SubSeq(j.bytes, 1, Len(j.bytes) - SaltLen - NonceLen) \o j.s \o j.n}

\* decrypt_file_mem_gen_key(bytes, "", with) on any of those byte strings
CipherOpenBytes ==
    /\ journal.op = "seal"
    /\ \E bytes \in Mangled(journal) : \E with \in CipherPasswords : \E fresh \in Salts :
          journal' = [journal EXCEPT !.op = "open_bytes", !.bytes = bytes, !.with = with,
                          !.out = decrypt_file_mem_gen_key(bytes, with, fresh)]
    /\ UNCHANGED <<state, lock, file, conn, accepted, serial>>

\* longest byte string of one repeated byte handed to the open
MaxFill == 60

\* decrypt_file_mem_gen_key on a byte string of any length up to MaxFill
CipherOpenFill ==
    /\ journal.op = ""
    /\ \E len \in 0..MaxFill : \E with \in CipherPasswords : \E fresh \in Salts :
          journal' = Call("open_bytes", <<>>, "", <<>>, <<>>, Fill(len, 7), with,
                          decrypt_file_mem_gen_key(Fill(len, 7), with, fresh))
    /\ UNCHANGED <<state, lock, file, conn, accepted, serial>>

CipherNext ==
    \/ CipherSeal
    \/ CipherOpen
    \/ CipherOpenBytes
    \/ CipherOpenFill

CipherSpec == CipherInit /\ [][CipherNext]_vars

\* C22: an envelope sealed over payload p with the key and salt that
\* pass_2_key gave for password w opens under w to exactly p, whatever the
\* nonce and whether the salt was supplied or drawn.
C22_EnvelopeRoundTrip ==
    journal.op = "open" /\ journal.with = journal.w => journal.out = Ok(journal.p)

\* a payload of the greatest length, sealed under a non-empty password, came
\* back from the open
C22_Witness ==
    /\ journal.op = "open"
    /\ journal.with = journal.w
    /\ journal.w # ""
    /\ Len(journal.p) = MaxPayload
    /\ journal.out.ok

\* ------------------------------------------------------------------ C23
\* the three parts of a byte string read as an envelope
SaltPart(bytes) == SubSeq(bytes, Len(bytes) - SaltLen + 1, Len(bytes))

NoncePart(bytes) == SubSeq(bytes, Len(bytes) - SaltLen - NonceLen + 1, Len(bytes) - SaltLen)

CipherPart(bytes) == SubSeq(bytes, 1, Len(bytes) - SaltLen - NonceLen)

\* C23: an open of a byte string shorter than a nonce and a salt together
\* returns an error and no payload; on a longer one it returns a payload
\* exactly when the bytes before the last 56 are that payload sealed under the
\* key of the password and the last 32 bytes, with the 24 bytes before those as
\* the nonce, and an error otherwise.
C23_MalformedRejected ==
    journal.op \in {"open", "open_bytes"}
    => IF Len(journal.bytes) < NonceLen + SaltLen
       THEN ~journal.out.ok /\ journal.out.val = <<>>
       ELSE \/ /\ journal.out.ok
               /\ CipherPart(journal.bytes)
                      = AeadEncrypt(Argon2(journal.with, SaltPart(journal.bytes)),
                                    NoncePart(journal.bytes), journal.out.val)
            \/ /\ ~journal.out.ok
               /\ \A p \in Payloads :
                     CipherPart(journal.bytes)
                         # AeadEncrypt(Argon2(journal.with, SaltPart(journal.bytes)),
                                       NoncePart(journal.bytes), p)

\* the open refused the last 55 bytes of an envelope, under the password that
\* opens the whole
C23_Witness ==
    /\ journal.op = "open_bytes"
    /\ journal.with = journal.w
    /\ Len(journal.bytes) = NonceLen + SaltLen - 1
    /\ journal.bytes = SubSeq(journal.s, 2, SaltLen) \o <<>>
           \/ journal.bytes = SubSeq(journal.n \o journal.s, 2, NonceLen + SaltLen)
    /\ ~journal.out.ok

\* ------------------------------------------------------------------ C24
\* every container of the tree stores each entry under the entry's own url,
\* so no container has two entries of one url
KeyedByUrl(c) == \A pos \in Positions(c) : StoredAt(c, pos).url = pos[2]

\* the entries of the container at the path, none if the tree has no such container
EntriesAt(c, parts) == IF HasPath(c, parts) THEN ContainerAt(c, parts).entries ELSE EmptyMap

\* the container took entry e: it holds e under e's url, with the container's
\* name as back-reference, and every other url holds what it held
Inserted(before, after, e, name) ==
    /\ DOMAIN after = DOMAIN before \cup {e.url}
    /\ after[e.url] = [e EXCEPT !.parent = name]
    /\ \A u \in DOMAIN before \ {e.url} : after[u] = before[u]

\* where the insert just applied put its entry
InsertPath(jr) == IF jr.op = "add_entry" THEN <<>> ELSE SplitDots(jr.path)

\* C24: every insertion of an entry leaves each container with at most one
\* entry per url; the container the entry went to holds it under its url,
\* in place of the entry that url had, and its other entries are unchanged.
C24_LatestWins ==
    [][journal'.op \in {"add_entry", "add_entry_to_container"}
       => /\ KeyedByUrl(state.current_container)'
          /\ Inserted(EntriesAt(state.current_container, InsertPath(journal')),
                      EntriesAt(state.current_container', InsertPath(journal')),
                      journal'.value,
                      ContainerAt(state.current_container', InsertPath(journal')).name)]_vars

\* an insert into a nested container displaced an entry of the same url and
\* another user, and the container has an entry of another url beside it
C24_Witness ==
    /\ journal.op = "add_entry_to_container"
    /\ journal.out # <<>>
    /\ journal.out[1].url = journal.value.url
    /\ journal.out[1].username # journal.value.username
    /\ Cardinality(DOMAIN EntriesAt(state.current_container, SplitDots(journal.path))) = 2

\* ------------------------------------------------------------------ C25
\* a step of the thread that serves connection w, once it has the lock
Step(w) ==
    \/ WriteSome(w)
    \/ WriteAll(w)
    \/ StoreTree(w)
    \/ StorePass(w)
    \/ ReturnErr(w)

\* state.lock() returns once the mutex is free: Handle(w) is enabled exactly
\* when w has read its command and the mutex is free, and is disabled by its
\* own step, so this is weak fairness of Handle(w)
LockGranted(w) == []<>~(conn[w].pc = "ready" /\ MutexFree(lock))

\* The service under fair scheduling: each thread std::thread::spawn started
\* keeps being scheduled, so a step it can take for good is taken.
LiveSpec ==
    /\ Init
    /\ [][Next]_vars
    /\ \A w \in Workers : LockGranted(w) /\ WF_vars(Step(w))

\* C25: every command that has been read from a connection is run to its end:
\* the thread gets the lock, the handler returns, and the lock is released
\* with the response in hand, however many connections compete.
C25_EveryCommandCompletes ==
    \A w \in Workers : (conn[w].pc = "ready") ~> (conn[w].pc = "idle" /\ lock # w)

\* a thread has read its command and waits for the lock while another thread,
\* its handler done, is between the two assignments of the write-back
C25_Witness ==
    \E w, v \in Workers :
        /\ w # v
        /\ conn[w].pc = "ready"
        /\ conn[v].pc = "half"
        /\ lock = v

\* ------------------------------------------------------------------ C26
\* C26 (as claimed): whenever no command is running, every entry of the
\* session tree opens under the password the session has cached.
C26_RevealableUnderCached ==
    (\A w \in Workers : ~InHandler(w))
    => \A i \in DOMAIN get_all_entries(state.current_container) :
          decrypt_password(get_all_entries(state.current_container)[i], state.last_pass,
                           Rnd0.salt).ok

\* ------------------------------------------------------------------ C27
\* the connection is on a command other than `open` whose handler has
\* returned an error or a response that reports a failure
Rejected(c) ==
    /\ c.pc \in {"writing", "ran", "half"}
    /\ c.cmd.name # "open"
    /\ c.res.failed \/ c.res.resp.msg \notin SuccessMsgs

\* worker w takes the step, on a command that is rejected
StepOfRejected(w) ==
    /\ conn'[w] # conn[w]
    /\ Rejected(conn[w]) \/ Rejected(conn'[w])

\* C27: no step of a command other than `open` that is rejected or fails,
\* from the handler's run to the write-back or the early return, changes the
\* session's tree, cached password or store path.
C27_RejectedChangesNothing ==
    [][\A w \in Workers : StepOfRejected(w) => state' = state]_vars

\* a `close` whose save failed has had its state written back, in a session
\* that holds an opened store and its password
C27_Witness ==
    \E w \in Workers :
        /\ conn[w].pc = "half"
        /\ conn[w].cmd.name = "close"
        /\ conn[w].res.resp.msg = "error closing store"
        /\ state.last_pass # ""
        /\ get_all_entries(state.current_container) # <<>>

\* ------------------------------------------------------------------ `get` on its own
\* A further specification applies handle_get, through process_command, to
\* sessions whose entries were sealed under different passwords or not at all,
\* so that a reveal can succeed for one entry and fail for another.  `journal`
\* holds the command and the rows of its response.

\* an entry as a save under password pw leaves it; under "plain", never sealed
SealedEntry(username, url, secret, pw) ==
    IF pw = "plain" THEN NewEntry(username, secret, "u@x.com", url)
    ELSE encrypt_password(NewEntry(username, secret, "u@x.com", url),
                          Argon2(pw, SaltBytes(1)), NonceBytes(1), SaltBytes(1))

\* what the entries of the sessions were sealed under
Seals == Passwords \cup {"plain"}

\* the session trees: one entry at the root, or one at the root and one in `sub`
RevealTrees ==
    {add_entry(NewContainer("store"), SealedEntry("u", "site.com", <<Byte(1)>>, a)) :
        a \in Seals}
    \cup {add_entry_to_container(
              add_entry(NewContainer("store"), SealedEntry("u", "site.com", <<Byte(1)>>, a)),
              PathSub, SealedEntry("v", "b.org", <<Byte(2)>>, b)) : a \in Seals, b \in Seals}

\* the `get` requests: everything, by field, and with the value missing
GetCommands ==
    {Cmd("get", "x", "all", ""), Cmd("get", "x", "*", ""), Cmd("get", "x", "url", "site.com"),
     Cmd("get", "x", "url", "b.org"), Cmd("get", "x", "email", "u@x.com"),
     Cmd("get", "x", "username", "v"), Cmd("get", "x", "parent", "sub"),
     Cmd("get", "x", "url", "")}

Asked(cmd, rows) == [cmd |-> cmd, rows |-> rows]

RevealInit ==
    /\ state \in {[State0 EXCEPT !.current_container = t, !.last_pass = p] :
                     t \in RevealTrees, p \in CipherPasswords}
    /\ lock = 0
    /\ file = NoFile
    /\ conn = [w \in Workers |-> Idle]
    /\ accepted = 0
    /\ serial = [state |-> State0, file |-> NoFile]
    /\ journal = Asked(NoCmd, <<>>)

\* process_command(state, "get", ...)
RevealGet ==
    /\ journal.cmd = NoCmd
    /\ \E cmd \in GetCommands :
          journal' = Asked(cmd, process_command(state, cmd, file, Rnd0).resp.rows)
    /\ UNCHANGED <<state, lock, file, conn, accepted, serial>>

RevealNext == RevealGet

RevealSpec == RevealInit /\ [][RevealNext]_vars

\* the entries a `get` selects: all of them, or those the field and value match
Selected(c, cmd) ==
    IF cmd.a2 \in {"all", "*"} THEN get_all_entries(c)
    ELSE IF cmd.a2 = "" \/ cmd.a3 = "" THEN <<>>
    ELSE get_entries_by_field(c, cmd.a2, cmd.a3)

\* the cached password opens the entry's secret
Opens(e, password) == decrypt_password(e, password, Rnd0.salt).ok

\* C28: when the cached password fails to open the secret of any one of the
\* entries a `get` selects, the response has no rows; otherwise it has one row
\* for each selected entry, showing the opened secret.
C28_AllOrNothing ==
    journal.cmd # NoCmd
    => IF \E i \in DOMAIN Selected(state.current_container, journal.cmd) :
             ~Opens(Selected(state.current_container, journal.cmd)[i], state.last_pass)
       THEN journal.rows = <<>>
       ELSE /\ Len(journal.rows) = Len(Selected(state.current_container, journal.cmd))
            /\ \A i \in DOMAIN journal.rows :
                  /\ journal.rows[i].url
                         = Selected(state.current_container, journal.cmd)[i].url
                  /\ journal.rows[i].password
                         = from_utf8_lossy(decrypt_password(
                               Selected(state.current_container, journal.cmd)[i],
                               state.last_pass, Rnd0.salt).val.pass_vec)

\* a `get` of everything in a session where the cached password opens one of
\* the two entries and not the other
C28_Witness ==
    /\ journal.cmd.a2 = "all"
    /\ \E i, k \in DOMAIN get_all_entries(state.current_container) :
          /\ Opens(get_all_entries(state.current_container)[i], state.last_pass)
          /\ ~Opens(get_all_entries(state.current_container)[k], state.last_pass)
    /\ journal.rows = <<>>

\* ------------------------------------------------------------------ C29
\* `new store <pw>` with a password
IsNewStore(cmd) == cmd.name = "new" /\ cmd.a1 = "store" /\ cmd.a2 # ""

\* worker w takes the step, and the command it is on is `new store <pw>`
StepOfNewStore(w) ==
    /\ conn'[w] # conn[w]
    /\ IsNewStore(conn[w].cmd) \/ IsNewStore(conn'[w].cmd)

\* the file is an empty store sealed under the password
IsEmptyStoreUnder(fl, pass) ==
    /\ process_command(State0, Cmd("open", pass, "", ""), fl, Rnd0).resp.msg = MsgAccepted
    /\ IsEmptyTree(process_command(State0, Cmd("open", pass, "", ""), fl, Rnd0)
                       .state.current_container)

\* C29: over every step of `new store <pw>`: when the session tree has a child
\* or an entry, neither the session state nor the file changes; when it has
\* none, the command that reports the store created has left the file an empty
\* store sealed under <pw>.
C29_NewStoreGuarded ==
    [][\A w \in Workers :
          StepOfNewStore(w)
          => IF IsEmptyTree(state.current_container)
             THEN (conn'[w].pc = "ran" /\ conn'[w].res.resp.msg = "Store created at")
                  => IsEmptyStoreUnder(file', conn'[w].cmd.a2)
             ELSE state' = state /\ file' = file]_vars

\* `new store pw` has run and had its state written back in a session that
\* holds an opened store with an entry, and the file still holds that store
C29_Witness ==
    \E w \in Workers :
        /\ conn[w].pc = "half"
        /\ IsNewStore(conn[w].cmd)
        /\ get_all_entries(state.current_container) # <<>>
        /\ PersistedTree(file).ok
        /\ get_all_entries(PersistedTree(file).val) # <<>>

====
